---- MODULE Spec2Model ----
(***************************************************************************)
(* Signal monitoring and alerting pipeline of nexus-trader:                *)
(*   AgentService (start/stop/_loop/analyze/_create_signal),               *)
(*   AgentLLM.analyze_signal, NotificationService.broadcast and the        *)
(*   stand-alone writers trigger_real_analysis.py / verify_agent.py.       *)
(*                                                                         *)
(* Time is counted in minutes, mood and fried rate in hundredths.  One     *)
(* action is one synchronous stretch of a coroutine on the asyncio event   *)
(* loop, from the point where it is resumed to the next await that really  *)
(* suspends it.                                                            *)
(***************************************************************************)
EXTENDS Integers, Sequences, FiniteSets, Bags, TLC

\* ---- program constants (minutes, hundredths of a point) ----
DedupWindow == 10
SleepInterval == 1
BurstWindow == 5
MoodThreshold == 8000
FriedThreshold == 3000
RecoveryCeiling == 5000
BurstThreshold == 5
NRules == 5

\* ---- bounds of the model ----
MaxTime == 15
StoreStep == 5
SchedTime == 2
MaxLoopTasks == 2
MaxDirect == 2
MaxSignals == 3
MaxExternal == 2
MaxWorkers == 2
MaxCalls == 3
MaxClock == 33
MoodTime == 2
FreshTime == 3
ScanTime == 1
BurstTime == 3
EscalateTime == 1
WritersTime == 1

VARIABLES now, running, task, tasks, signals, threads, sentiment, anomalies,
          webhook, calls, op,
          radar, sentAt, ret, clock, cache, workers, done, thsMap,
          scanned, seenRows

\* The acquisition layer: the ttl_cache entry of the sentiment radar, the
\* timestamp of the latest SentimentRecord, the last value the radar
\* returned; the clock of the data getters, the Cache class, the get calls
\* in flight, the get calls that returned, DataProvider._ths_concept_map;
\* the last call of AnomalyDetector.scan_all and the feed rows that scans
\* have processed so far.
acq == <<radar, sentAt, ret, clock, cache, workers, done, thsMap,
         scanned, seenRows>>

vars == <<now, running, task, tasks, signals, threads, sentiment, anomalies,
          webhook, calls, op, acq>>

Escalated == {"critical", "warning"}

NoSent == [mood |-> -1, fried |-> -1, trend |-> "none"]

\* The record verify_agent.py inserts.
VerifySentiment == [mood |-> 9000, fried |-> 1000, trend |-> "up"]

\* What the LLM side does when AgentLLM.analyze_signal runs.
LLMCases == {"answers", "answers_empty", "raises", "unconfigured"}

\* AgentLLM.analyze_signal: the completion's content, or one of the two
\* strings it returns instead of raising.
AnalyzeSignal(case) ==
  CASE case = "answers" -> "text"
    [] case = "answers_empty" -> "empty"
    [] case = "unconfigured" -> "unconfigured_text"
    [] OTHER -> "failed_text"

\* f"{x:.1f}": x in hundredths, result in tenths, ties to even.
Fmt1(x) ==
  LET q == x \div 10
      r == x % 10
  IN  IF r < 5 THEN q
      ELSE IF r > 5 THEN q + 1
      ELSE IF q % 2 = 0 THEN q ELSE q + 1

RECURSIVE SumCopies(_, _)
SumCopies(B, S) ==
  IF S = {} THEN 0
  ELSE LET e == CHOOSE x \in S : TRUE
       IN  CopiesIn(e, B) + SumCopies(B, S \ {e})

\* Variant: the comprehension forgets the test of the type.
CountRecentAnyType(ty, t) ==
  SumCopies(anomalies,
            {a \in BagToSet(anomalies) : a.ts >= t - BurstWindow})

\* len([a for a in recent_anomalies if a.type == ty]) at time t
CountRecent(ty, t) ==
  SumCopies(anomalies,
            {a \in BagToSet(anomalies) : a.type = ty /\ a.ts >= t - BurstWindow})

RuleType(r) ==
  CASE r = 1 -> "sentiment_spike"
    [] r = 2 -> "risk_alert"
    [] r = 3 -> "recovery_sign"
    [] OTHER -> "anomaly_burst"

RuleLevel(r) ==
  CASE r = 1 -> "warning"
    [] r = 2 -> "critical"
    [] r = 3 -> "info"
    [] r = 4 -> "info"
    [] OTHER -> "warning"

\* Variant: the thresholds themselves fire the rules.
RuleFiresAtThreshold(r, snap, t) ==
  CASE r = 1 -> snap.mood >= MoodThreshold
    [] r = 2 -> snap.fried >= FriedThreshold
    [] r = 3 -> snap.trend = "up" /\ snap.mood < RecoveryCeiling
    [] r = 4 -> CountRecent("rocket", t) > BurstThreshold
    [] OTHER -> CountRecent("dive", t) > BurstThreshold

RuleFires(r, snap, t) ==
  CASE r = 1 -> snap.mood > MoodThreshold
    [] r = 2 -> snap.fried > FriedThreshold
    [] r = 3 -> snap.trend = "up" /\ snap.mood < RecoveryCeiling
    [] r = 4 -> CountRecent("rocket", t) > BurstThreshold
    [] OTHER -> CountRecent("dive", t) > BurstThreshold

\* Variant: every message is the bare template, without the number.
RuleMsgNoNumber(r, snap, t) ==
  CASE r = 1 -> <<"overheating", 0>>
    [] r = 2 -> <<"high_risk", 0>>
    [] r = 3 -> <<"recovering", 0>>
    [] r = 4 -> <<"rocket_burst", 0>>
    [] OTHER -> <<"dive_burst", 0>>

\* The message text: the template and the formatted number put into it.
RuleMsg(r, snap, t) ==
  CASE r = 1 -> <<"overheating", Fmt1(snap.mood)>>
    [] r = 2 -> <<"high_risk", Fmt1(snap.fried)>>
    [] r = 3 -> <<"recovering", 0>>
    [] r = 4 -> <<"rocket_burst", CountRecent("rocket", t)>>
    [] OTHER -> <<"dive_burst", CountRecent("dive", t)>>

\* Variant: the lookup matches on the type alone.
ExistingByType(sigs, ty, msg, t) ==
  LET hits == {i \in 1..Len(sigs) : /\ sigs[i].type = ty
                                    /\ sigs[i].ts >= t - DedupWindow}
  IN  IF hits = {} THEN 0 ELSE CHOOSE i \in hits : \A j \in hits : i <= j

\* Variant: the lookup forgets to subtract the window.
ExistingNoWindow(sigs, ty, msg, t) ==
  LET hits == {i \in 1..Len(sigs) : /\ sigs[i].type = ty
                                    /\ sigs[i].msg = msg
                                    /\ sigs[i].ts >= t}
  IN  IF hits = {} THEN 0 ELSE CHOOSE i \in hits : \A j \in hits : i <= j

\* The dedup lookup of _create_signal: the first row with the same type and
\* message whose timestamp is not older than ten minutes (0 when none).
Existing(sigs, ty, msg, t) ==
  LET hits == {i \in 1..Len(sigs) : /\ sigs[i].type = ty
                                    /\ sigs[i].msg = msg
                                    /\ sigs[i].ts >= t - DedupWindow}
  IN  IF hits = {} THEN 0 ELSE CHOOSE i \in hits : \A j \in hits : i <= j

\* Variant: the duplicate path hands back the row it found.
DupReturnExisting(ex) == ex

\* What _create_signal hands back on the duplicate path: a bare return (None,
\* written 0), as on every other path.
DupReturn(ex) == 0

NewSignal(ty, lvl, msg, t) ==
  [type |-> ty, level |-> lvl, msg |-> msg, ts |-> t, analysis |-> "none",
   sent |-> "none", llmCalls |-> 0, by |-> "agent", meta |-> "{}"]

\* Variant: the post is left running on its own and is not awaited.
BroadcastStartDetached(lvl) ==
  IF lvl \notin Escalated THEN "none"
  ELSE IF ~webhook THEN "skipped"
  ELSE "detached"

\* NotificationService.broadcast up to its first suspension: nothing for an
\* info signal, a skip when no webhook is configured, else the HTTP post.
BroadcastStart(lvl) ==
  IF lvl \notin Escalated THEN "none"
  ELSE IF ~webhook THEN "skipped"
  ELSE "pending"

\* analyze() from rule r on, until it returns, raises or suspends.
\* Result: the signal table, the _create_signal calls made, and where the
\* coroutine stands (return / raise / notify / llm) with the signal and rule.
RECURSIVE RunRules(_, _, _, _, _, _)
RunRules(r, snap, sigs, cs, t, fail) ==
  IF r > NRules
    THEN [signals |-> sigs, calls |-> cs, pc |-> "return", sig |-> 0, rule |-> r]
  ELSE IF r = 4 /\ fail = "anomaly"
    THEN [signals |-> sigs, calls |-> cs, pc |-> "raise", sig |-> 0, rule |-> r]
  ELSE IF ~RuleFires(r, snap, t)
    THEN RunRules(r + 1, snap, sigs, cs, t, fail)
  ELSE
    LET ty  == RuleType(r)
        lvl == RuleLevel(r)
        msg == RuleMsg(r, snap, t)
        ex  == Existing(sigs, ty, msg, t)
        c   == [type |-> ty, level |-> lvl, msg |-> msg, ts |-> t,
                before |-> Len(sigs), existing |-> ex, created |-> (ex = 0),
                ret |-> IF ex # 0 THEN DupReturn(ex) ELSE 0]
    IN  IF ex # 0
          THEN RunRules(r + 1, snap, sigs, Append(cs, c), t, fail)
        ELSE IF Len(sigs) >= MaxSignals
          THEN [signals |-> sigs, calls |-> cs, pc |-> "full", sig |-> 0, rule |-> r]
        ELSE
          LET b    == BroadcastStart(lvl)
              id   == Len(sigs) + 1
              row  == [NewSignal(ty, lvl, msg, t) EXCEPT !.sent = b]
              sigs1 == Append(sigs, row)
              cs1  == Append(cs, c)
          IN  IF b = "pending"
                THEN [signals |-> sigs1, calls |-> cs1, pc |-> "notify",
                      sig |-> id, rule |-> r]
              ELSE IF lvl \in Escalated
                THEN [signals |-> [sigs1 EXCEPT ![id].llmCalls = @ + 1],
                      calls |-> cs1, pc |-> "llm", sig |-> id, rule |-> r]
              ELSE RunRules(r + 1, snap, sigs1, cs1, t, fail)

\* ---- coroutines on the event loop ----
NewTask(kind) ==
  [kind |-> kind, pc |-> "new", cancel |-> FALSE, wakeAt |-> 0, sig |-> 0,
   rule |-> 0, snap |-> NoSent, stopAt |-> -1, endedIn |-> "none",
   early |-> FALSE, failed |-> FALSE, since |-> -1]

\* A finished coroutine keeps only how it ended.
Finished(tk, how, early) ==
  [NewTask(tk.kind) EXCEPT !.pc = "done", !.endedIn = how, !.early = early,
                           !.failed = tk.failed]

LoopTasks == {t \in 1..Len(tasks) : tasks[t].kind = "loop"}
DirectTasks == {t \in 1..Len(tasks) : tasks[t].kind = "direct"}
Live(t) == tasks[t].pc # "done"

\* A cancellation requested by stop() is already queued on the event loop,
\* ahead of the first step of any task created later.
CancelQueuedBefore(t) == \E u \in 1..(t - 1) : Live(u) /\ tasks[u].cancel

\* Variant: the analysis thread is started but not awaited.
AfterRunNoAwait(tk, res, t) ==
  IF res.pc = "notify"
    THEN [tk EXCEPT !.pc = res.pc, !.sig = res.sig, !.rule = res.rule]
  ELSE IF tk.kind = "loop"
    THEN [tk EXCEPT !.pc = "sleep", !.wakeAt = t + SleepInterval, !.sig = 0,
                    !.rule = 0, !.snap = NoSent, !.since = -1,
                    !.failed = (@ \/ res.pc = "raise")]
  ELSE Finished(tk, res.pc, FALSE)

\* Variant: an exception of analyze() leaves the loop.
AfterRunRaiseEnds(tk, res, t) ==
  IF res.pc \in {"notify", "llm"}
    THEN [tk EXCEPT !.pc = res.pc, !.sig = res.sig, !.rule = res.rule,
                    !.since = IF res.pc = "llm" THEN t ELSE -1]
  ELSE IF tk.kind = "loop" /\ res.pc # "raise"
    THEN [tk EXCEPT !.pc = "sleep", !.wakeAt = t + SleepInterval, !.sig = 0,
                    !.rule = 0, !.snap = NoSent, !.since = -1]
  ELSE Finished([tk EXCEPT !.failed = (@ \/ res.pc = "raise")], res.pc, FALSE)

\* Where a coroutine stands after a synchronous stretch of analyze(): the
\* loop goes to its sleep when analyze() returned or raised an Exception, a
\* direct caller is finished.
AfterRun(tk, res, t) ==
  IF res.pc \in {"notify", "llm"}
    THEN [tk EXCEPT !.pc = res.pc, !.sig = res.sig, !.rule = res.rule,
                    !.since = IF res.pc = "llm" THEN t ELSE -1]
  ELSE IF tk.kind = "loop"
    THEN [tk EXCEPT !.pc = "sleep", !.wakeAt = t + SleepInterval, !.sig = 0,
                    !.rule = 0, !.snap = NoSent, !.since = -1,
                    !.failed = (@ \/ res.pc = "raise")]
  ELSE Finished(tk, res.pc, FALSE)

\* The worker thread asyncio.to_thread starts for AgentLLM.analyze_signal.
Dispatched(res, t) ==
  IF res.pc = "llm" THEN {[sig |-> res.sig, owner |-> t]} ELSE {}

\* Variant: analyze() goes on to the rules without a sentiment record.
AnalyzeFromStartNoGuard(fail) ==
  IF fail = "sentiment"
    THEN [signals |-> signals, calls |-> <<>>, pc |-> "raise", sig |-> 0, rule |-> 0]
  ELSE RunRules(1, sentiment, signals, <<>>, now, fail)

\* analyze() from its first line: the latest sentiment row, then the rules.
AnalyzeFromStart(fail) ==
  IF fail = "sentiment"
    THEN [signals |-> signals, calls |-> <<>>, pc |-> "raise", sig |-> 0, rule |-> 0]
  ELSE IF sentiment = NoSent
    THEN [signals |-> signals, calls |-> <<>>, pc |-> "return", sig |-> 0, rule |-> 0]
  ELSE RunRules(1, sentiment, signals, <<>>, now, fail)

\* Where a DB statement of analyze() may raise.
FailPoints == {"none", "sentiment", "anomaly"}

OpOf(res) == IF res.pc = "raise" THEN "raise" ELSE "step"

\* ------------------------------------------------------------------------
\* Acquisition layer.  The data getters run on a clock of ten-second units.
\* ------------------------------------------------------------------------
HeatmapTTL == 30
LeadersTTL == 30
ActivityTTL == 30
MacroTTL == 360
MockTTL == 3
ErrorTTL == 1
FetchAttempts == 2

\* The getters of MarketDataService, which go through the Cache class.
CacheMetrics == {"heatmap", "leaders", "sentiment", "macro"}

\* AnomalyDetector.scan_all, AkShareProvider.get_market_activity_data,
\* DataProvider.get_all_concepts and DataProvider.get_concept_stocks.
ChainMetrics == {"anomalies", "activity", "concepts", "stocks"}

\* Values a getter handles: kind "none" is Python's None, "norows" an empty
\* list, "rows" data of backend src; ver tells one fetch from another.
Value(kind, src, ver) == [kind |-> kind, src |-> src, ver |-> ver]
None == Value("none", "none", 0)
EmptyList == Value("norows", "none", 0)

\* Python truthiness, as tested by "if cached:".
Truthy(v) == v.kind \notin {"none", "norows"}

NoEntry == [val |-> None, expiry |-> 0]

\* Cache.get: the stored value while time.time() < expiry, else None.
CacheGet(m) ==
  IF cache[m].val # None /\ clock < cache[m].expiry THEN cache[m].val ELSE None

\* Cache.set: both dictionaries are written in one step.
CacheSet(c, m, v, ttl) == [c EXCEPT ![m] = [val |-> v, expiry |-> clock + ttl]]

\* The ttl given to Cache.set after a successful fetch.
TTL(m) ==
  CASE m = "heatmap" -> HeatmapTTL
    [] m = "leaders" -> LeadersTTL
    [] m = "sentiment" -> ActivityTTL
    [] OTHER -> MacroTTL

\* Variant: the concept getters ask Tonghuashun before EastMoney.
ProvidersThsFirst(m) ==
  CASE m = "heatmap" -> <<"ths">>
    [] m = "leaders" -> <<"em">>
    [] m = "sentiment" -> <<"legu">>
    [] m = "macro" -> <<"baidu">>
    [] m = "anomalies" -> <<"em">>
    [] m = "activity" -> <<"legu">>
    [] m = "concepts" -> <<"ths", "em">>
    [] OTHER -> <<"ths_names", "ths", "em">>

\* The backends a getter invokes, in the order it tries them.
Providers(m) ==
  CASE m = "heatmap" -> <<"ths">>
    [] m = "leaders" -> <<"em">>
    [] m = "sentiment" -> <<"legu">>
    [] m = "macro" -> <<"baidu">>
    [] m = "anomalies" -> <<"em">>
    [] m = "activity" -> <<"legu">>
    [] m = "concepts" -> <<"em", "ths">>
    [] OTHER -> <<"em", "ths_names", "ths">>

\* Attempts tenacity grants one backend: stop_after_attempt(2) on the
\* fetch_* functions and _fetch_changes; DataProvider calls each backend once.
Attempts(m) == IF m \in {"concepts", "stocks"} THEN 1 ELSE FetchAttempts

\* The function under @retry catches the exception itself and returns an
\* empty value, so the decorator sees a normal return.
Swallows(m) == m = "activity"

\* A successful fetch that can yield no row (empty frame, every row
\* filtered out); the sentiment record always has its keys.
CanBeEmpty(m) == m \notin {"sentiment", "activity"}

Outcomes(m) == IF CanBeEmpty(m) THEN {"rows", "norows", "raises"}
               ELSE {"rows", "raises"}

\* Variant: the exception of the last attempt leaves the getter.
OnExhaustedRaises(m) == [raised |-> TRUE, val |-> None, ttl |-> 0]

\* The except branch of a getter whose backends are exhausted: the value it
\* returns and the ttl with which it caches that value (0: not cached).
OnExhausted(m) ==
  CASE m \in {"heatmap", "leaders"} ->
         [raised |-> FALSE, val |-> Value("mock", "none", 0), ttl |-> MockTTL]
    [] m = "sentiment" ->
         [raised |-> FALSE, val |-> Value("error", "none", 0), ttl |-> ErrorTTL]
    [] m = "anomalies" ->
         [raised |-> FALSE, val |-> Value("error_entry", "none", 0), ttl |-> 0]
    [] OTHER -> [raised |-> FALSE, val |-> EmptyList, ttl |-> 0]

\* The cache entry of a metric as a call finds it.
EntryState(m) ==
  IF m \notin CacheMetrics \/ cache[m].val = None THEN "absent"
  ELSE IF clock < cache[m].expiry THEN "fresh"
  ELSE "expired"

NewWorker(m) == [metric |-> m, prov |-> 1, attempts |-> 0, invoked |-> <<>>,
                 seen |-> EntryState(m),
                 was |-> IF m \in CacheMetrics THEN cache[m].val ELSE None]

\* A get call that returned.
Returned(w, v, how, raised) ==
  [metric |-> w.metric, ret |-> v, how |-> how, invoked |-> w.invoked,
   seen |-> w.seen, was |-> w.was, raised |-> raised]

Fetched(d) == d.how = "fetched"

Without(ws, i) == SubSeq(ws, 1, i - 1) \o SubSeq(ws, i + 1, Len(ws))

\* ------------------------------------------------------------------------
\* The sentiment radar: MarketSentimentService.get_market_sentiment under
\* ttl_cache.  Numbers are exact fractions <<numerator, denominator>>.
\* ------------------------------------------------------------------------
RadarTTL == 60
SaveGap == 50
Hysteresis == 50
MoodBase == 50
MoodFloor == 0
MoodCeiling == 100

RECURSIVE Gcd(_, _)
Gcd(a, b) == IF b = 0 THEN a ELSE Gcd(b, a % b)

\* The fraction n/d (d > 0) in lowest terms.
Frac(n, d) ==
  LET g == Gcd(IF n < 0 THEN -n ELSE n, d)
  IN  <<n \div g, d \div g>>
FAdd(a, b) == Frac(a[1] * b[2] + b[1] * a[2], a[2] * b[2])
FSub(a, b) == Frac(a[1] * b[2] - b[1] * a[2], a[2] * b[2])
FLess(a, b) == a[1] * b[2] < b[1] * a[2]
FMax(a, b) == IF FLess(a, b) THEN b ELSE a
FMin(a, b) == IF FLess(b, a) THEN b ELSE a

\* round(x, 1) of a fraction x >= 0, in tenths, ties to even.
Round1(x) ==
  LET n == 10 * x[1]
      q == n \div x[2]
      r == n % x[2]
  IN  IF 2 * r < x[2] THEN q
      ELSE IF 2 * r > x[2] THEN q + 1
      ELSE IF q % 2 = 0 THEN q ELSE q + 1

\* Variant: the fried rate as a share of one, not as a percentage.
FriedRateShare(zt, zb) ==
  IF zt + zb > 0 THEN Frac(zb, zt + zb) ELSE Frac(0, 1)

\* fried_rate = zb_count / total_attempt * 100 if total_attempt > 0 else 0
FriedRate(zt, zb) ==
  IF zt + zb > 0 THEN Frac(zb * 100, zt + zb) ELSE Frac(0, 1)

\* mood = 50 + zt_count / 5 - fried_rate * 0.5 + premium_rate * 2
RawMood(zt, zb, prem) ==
  LET fried == FriedRate(zt, zb)
  IN  FAdd(FSub(FAdd(Frac(MoodBase, 1), Frac(zt, 5)),
                Frac(fried[1], 2 * fried[2])),
           Frac(2 * prem[1], prem[2]))

\* Variant: the value is rounded but not clamped.
ClampNot(x) == FMax(Frac(MoodFloor, 1), x)

\* mood = max(0, min(100, mood))
Clamp(x) == FMax(Frac(MoodFloor, 1), FMin(Frac(MoodCeiling, 1), x))

\* The mood of one fetch, in tenths: clamped, then rounded to one decimal.
Mood(zt, zb, prem) == Round1(Clamp(RawMood(zt, zb, prem)))

\* Variant: the band is ignored.
TrendNoBand(mood, prev) ==
  IF prev = NoSent THEN "flat"
  ELSE IF mood * 10 > prev.mood THEN "up"
  ELSE IF mood * 10 < prev.mood THEN "down"
  ELSE "flat"

\* The trend against the latest SentimentRecord (mood in tenths, the
\* record's mood and the band in hundredths).
Trend(mood, prev) ==
  IF prev = NoSent THEN "flat"
  ELSE IF mood * 10 > prev.mood + Hysteresis THEN "up"
  ELSE IF mood * 10 < prev.mood - Hysteresis THEN "down"
  ELSE "flat"

\* What the backends of one fetch deliver; -1 and NoPremium stand for a
\* backend that raised.
NoPremium == <<0, 0>>
Fetch(legu, zt, zb, prem) == [legu |-> legu, zt |-> zt, zb |-> zb, prem |-> prem]

\* The counts and the premium the function goes on with: the Legu count
\* replaces a failed limit-up pool, zero a failed fried pool or premium.
ZtCount(f) == IF f.zt # -1 THEN f.zt ELSE IF f.legu # -1 THEN f.legu ELSE 0
ZbCount(f) == IF f.zb # -1 THEN f.zb ELSE 0
PremiumRate(f) == IF f.prem # NoPremium THEN f.prem ELSE Frac(0, 1)

NoRadar == [has |-> FALSE, mood |-> -1, trend |-> "none", at |-> 0]

NoRet == [mood |-> -1, trend |-> "none", cached |-> FALSE, saved |-> FALSE,
          fetch |-> Fetch(-1, -1, -1, NoPremium), prev |-> NoSent]

\* ------------------------------------------------------------------------
\* AnomalyDetector.scan_all.  The raw categories of the EastMoney feed are
\* written in English, in the order of the keys of TYPE_MAP.
\* ------------------------------------------------------------------------
DayMinutes == 1440

TYPE_MAP ==
  [rocket_launch |-> "rocket", quick_rebound |-> "rocket",
   limit_up_sealed |-> "rocket", large_buy |-> "big_order_buy",
   accelerating_fall |-> "dive", high_dive |-> "dive",
   limit_down_sealed |-> "dive", large_sell |-> "big_order_sell",
   limit_up_opened |-> "dive", limit_down_opened |-> "rocket",
   big_bid |-> "big_order_buy", big_ask |-> "big_order_sell",
   auction_up |-> "rocket", auction_down |-> "dive"]

SEVERITY_MAP ==
  [rocket_launch |-> "high", quick_rebound |-> "medium",
   limit_up_sealed |-> "high", large_buy |-> "medium",
   accelerating_fall |-> "high", high_dive |-> "high",
   limit_down_sealed |-> "high", large_sell |-> "medium",
   limit_up_opened |-> "high", limit_down_opened |-> "medium",
   big_bid |-> "medium", big_ask |-> "medium",
   auction_up |-> "low", auction_down |-> "low"]

\* dict.get(key, default)
DictGet(d, key, default) == IF key \in DOMAIN d THEN d[key] ELSE default

\* Variant: a category missing from the table is left without a type.
InternalTypeUnset(cat) == DictGet(TYPE_MAP, cat, "none")

InternalType(cat) == DictGet(TYPE_MAP, cat, "rocket")
Severity(cat) == DictGet(SEVERITY_MAP, cat, "low")

\* A row of the feed: category, code, time of day (minutes) and whether
\* its time string parses ("ok") or makes strptime raise ("bad_time").
FeedRow(cat, code, tod, form) ==
  [cat |-> cat, code |-> code, tod |-> tod, form |-> form]

\* today_str: midnight of the day the scan runs on.
Today(t) == (t \div DayMinutes) * DayMinutes

\* dt_obj: the date of the scan joined with the row's time of day.
EventTime(row, t) == Today(t) + row.tod

\* The AnomalyRecord built from a row (the fields the pipeline reads).
NewAnomaly(row, t) ==
  [code |-> row.code, ts |-> EventTime(row, t), type |-> InternalType(row.cat),
   change_type |-> row.cat, severity |-> Severity(row.cat)]

\* The dedup select: a record with the row's code, time and internal type.
ExistingAnomaly(store, row, t) ==
  \E a \in BagToSet(store) : /\ a.code = row.code
                             /\ a.ts = EventTime(row, t)
                             /\ a.type = InternalType(row.cat)

\* The entry appended to the returned list.
Alert(row, t) ==
  [type |-> InternalType(row.cat), change_type |-> row.cat, code |-> row.code,
   severity |-> Severity(row.cat), ts |-> EventTime(row, t)]

\* The entry returned when the fetch raised.
ErrorAlert(t) ==
  [type |-> "error", change_type |-> "none", code |-> "none",
   severity |-> "low", ts |-> t]

\* filter_codes: None in mode "all", else the codes of the watchlist or of
\* the leader stocks.
NoFilter == [mode |-> "all", codes |-> {}]
Passes(fc, code) == fc.mode = "all" \/ code \in fc.codes

\* alerts.sort(key=ts, reverse=True): stable, latest first.
RECURSIVE SortDesc(_)
SortDesc(s) ==
  IF Len(s) <= 1 THEN s
  ELSE LET rest == SortDesc(Tail(s))
           ahead == {i \in 1..Len(rest) : rest[i].ts > Head(s).ts}
           n == Cardinality(ahead)
       IN  SubSeq(rest, 1, n) \o <<Head(s)>> \o SubSeq(rest, n + 1, Len(rest))

\* The loop over the rows of the frame, from row k on.  A row that raises
\* is skipped.  A commit that raises leaves the session in need of a
\* rollback that is never issued, so that every later statement of the same
\* session raises as well.
RECURSIVE ScanRows(_, _, _, _, _, _)
ScanRows(rows, k, t, failAt, fc, st) ==
  IF k > Len(rows) THEN st
  ELSE
    LET row  == rows[k]
        skip == [st EXCEPT !.skipped = @ \cup {k}]
        had  == ExistingAnomaly(st.store, row, t)
    IN  IF row.form # "ok" \/ st.broken
          THEN ScanRows(rows, k + 1, t, failAt, fc, skip)
        ELSE IF ~had /\ k = failAt
          THEN ScanRows(rows, k + 1, t, failAt, fc, [skip EXCEPT !.broken = TRUE])
        ELSE ScanRows(rows, k + 1, t, failAt, fc,
               [st EXCEPT
                  !.store = IF had THEN @ ELSE @ (+) SetToBag({NewAnomaly(row, t)}),
                  !.alerts = IF Passes(fc, row.code)
                               THEN Append(@, Alert(row, t)) ELSE @])

NoScan == [fetch |-> "none", rows |-> <<>>, at |-> 0, alerts |-> <<>>,
           skipped |-> {}, failAt |-> 0, filter |-> NoFilter]

Init ==
  /\ now = 0
  /\ running = FALSE
  /\ task = 0
  /\ tasks = <<>>
  /\ signals = <<>>
  /\ threads = {}
  /\ sentiment = NoSent
  /\ anomalies = EmptyBag
  /\ webhook \in BOOLEAN
  /\ calls = <<>>
  /\ op = "none"
  /\ radar = NoRadar
  /\ sentAt = 0
  /\ ret = NoRet
  /\ clock = 0
  /\ cache = [m \in CacheMetrics |-> NoEntry]
  /\ workers = <<>>
  /\ done = <<>>
  /\ thsMap = FALSE
  /\ scanned = NoScan
  /\ seenRows = {}

\* Variant: start() without the _running test.
StartNoGuard ==
  /\ op' = "start"
  /\ calls' = <<>>
  /\ Cardinality(LoopTasks) < MaxLoopTasks
  /\ running' = TRUE
  /\ tasks' = Append(tasks, NewTask("loop"))
  /\ task' = Len(tasks) + 1
  /\ UNCHANGED <<now, signals, threads, sentiment, anomalies, webhook, acq>>

\* AgentService.start
Start ==
  /\ op' = "start"
  /\ calls' = <<>>
  /\ IF running
       THEN UNCHANGED <<running, task, tasks>>
       ELSE /\ Cardinality(LoopTasks) < MaxLoopTasks
            /\ running' = TRUE
            /\ tasks' = Append(tasks, NewTask("loop"))
            /\ task' = Len(tasks) + 1
  /\ UNCHANGED <<now, signals, threads, sentiment, anomalies, webhook, acq>>

\* Variant: stop() clears the flag and leaves the task alone.
StopFlagOnly ==
  /\ op' = "stop"
  /\ calls' = <<>>
  /\ running' = FALSE
  /\ UNCHANGED <<now, task, tasks, signals, threads, sentiment, anomalies, webhook, acq>>

\* AgentService.stop
Stop ==
  /\ op' = "stop"
  /\ calls' = <<>>
  /\ running' = FALSE
  /\ IF task # 0 /\ Live(task)
       THEN tasks' = [tasks EXCEPT ![task].cancel = TRUE,
                        ![task].stopAt = IF @ = -1 THEN now ELSE @]
       ELSE UNCHANGED tasks
  /\ UNCHANGED <<now, task, signals, threads, sentiment, anomalies, webhook, acq>>

\* Variant: a CancelledError raised inside analyze() is swallowed like any
\* other exception, and the loop goes on to its sleep.
DeliverCancelSwallow(t) ==
  /\ Live(t) /\ tasks[t].cancel
  /\ tasks' = [tasks EXCEPT ![t] =
       IF tasks[t].pc \in {"notify", "llm"}
         THEN [tasks[t] EXCEPT !.pc = "sleep", !.cancel = FALSE,
                               !.wakeAt = now + SleepInterval, !.sig = 0,
                               !.rule = 0, !.snap = NoSent, !.since = -1]
         ELSE Finished(tasks[t], tasks[t].pc,
                       tasks[t].pc = "sleep" /\ now < tasks[t].wakeAt)]
  /\ op' = "step"
  /\ calls' = <<>>
  /\ UNCHANGED <<now, running, task, signals, threads, sentiment, anomalies, webhook, acq>>

\* The CancelledError reaches the loop task at the await it is suspended in:
\* inside analyze() it is caught and breaks the loop, in the sleep (or before
\* the first step) it ends the task directly.
DeliverCancel(t) ==
  /\ Live(t) /\ tasks[t].cancel
  /\ tasks' = [tasks EXCEPT ![t] =
       Finished(tasks[t], tasks[t].pc,
                tasks[t].pc = "sleep" /\ now < tasks[t].wakeAt)]
  /\ op' = "step"
  /\ calls' = <<>>
  /\ UNCHANGED <<now, running, task, signals, threads, sentiment, anomalies, webhook, acq>>

\* One iteration of _loop: the while test, then analyze() up to its first
\* suspension (or through to the sleep).
BeginCycle(t, fail) ==
  /\ t \in LoopTasks
  /\ tasks[t].pc \in {"new", "sleep"}
  /\ ~tasks[t].cancel
  /\ ~CancelQueuedBefore(t)
  /\ tasks[t].pc = "sleep" => now >= tasks[t].wakeAt
  /\ IF ~running
       THEN /\ tasks' = [tasks EXCEPT ![t] = Finished(tasks[t], "flag", FALSE)]
            /\ calls' = <<>>
            /\ op' = "step"
            /\ UNCHANGED <<signals, threads>>
       ELSE LET res == AnalyzeFromStart(fail)
            IN  /\ res.pc # "full"
                /\ fail = "anomaly" => res.pc = "raise"
                /\ tasks' = [tasks EXCEPT
                     ![t] = AfterRun([tasks[t] EXCEPT !.snap = sentiment], res, now)]
                /\ signals' = res.signals
                /\ calls' = res.calls
                /\ threads' = threads \cup Dispatched(res, t)
                /\ op' = OpOf(res)
  /\ UNCHANGED <<now, running, task, sentiment, anomalies, webhook, acq>>

\* verify_agent.main: await AgentService.analyze() from another coroutine.
DirectAnalyze(fail) ==
  /\ LET res  == AnalyzeFromStart(fail)
         free == {u \in DirectTasks : ~Live(u)}
         t    == IF free = {} THEN Len(tasks) + 1 ELSE CHOOSE u \in free : TRUE
         tk   == AfterRun([NewTask("direct") EXCEPT !.snap = sentiment], res, now)
     IN  /\ free = {} => Cardinality(DirectTasks) < MaxDirect
         /\ res.pc # "full"
         /\ fail = "anomaly" => res.pc = "raise"
         /\ tasks' = IF free = {} THEN Append(tasks, tk)
                     ELSE [tasks EXCEPT ![t] = tk]
         /\ signals' = res.signals
         /\ calls' = res.calls
         /\ threads' = threads \cup Dispatched(res, t)
         /\ op' = OpOf(res)
  /\ UNCHANGED <<now, running, task, sentiment, anomalies, webhook, acq>>

\* What send_feishu_alert writes to the log: nothing but the info line for a
\* delivered post, an error line for a rejected ("rejected": status not 200)
\* or failed ("error": the post raised) one.
NotifyLogged(outcome) == IF outcome = "ok" THEN "step" ELSE outcome

\* Variant: a rejected or failed post raises out of broadcast().
NotifyReturnsPropagates(t, outcome) ==
  /\ t \in 1..Len(tasks)
  /\ tasks[t].pc = "notify" /\ ~tasks[t].cancel
  /\ LET id == tasks[t].sig
     IN  IF outcome = "ok"
           THEN /\ signals' = [signals EXCEPT ![id].sent = "done",
                                              ![id].llmCalls = @ + 1]
                /\ tasks' = [tasks EXCEPT ![t].pc = "llm", ![t].since = now]
                /\ threads' = threads \cup {[sig |-> id, owner |-> t]}
           ELSE /\ signals' = [signals EXCEPT ![id].sent = "done"]
                /\ tasks' = [tasks EXCEPT ![t] =
                     AfterRun(tasks[t], [pc |-> "raise", sig |-> 0, rule |-> 0], now)]
                /\ UNCHANGED threads
  /\ op' = NotifyLogged(outcome)
  /\ calls' = <<>>
  /\ UNCHANGED <<now, running, task, sentiment, anomalies, webhook, acq>>

\* The webhook post of broadcast() completes (delivered, rejected or failed:
\* the outcome is only logged); _create_signal goes on to asyncio.to_thread.
NotifyReturns(t, outcome) ==
  /\ t \in 1..Len(tasks)
  /\ tasks[t].pc = "notify" /\ ~tasks[t].cancel
  /\ LET id == tasks[t].sig
     IN  /\ signals' = [signals EXCEPT ![id].sent = "done",
                                       ![id].llmCalls = @ + 1]
         /\ tasks' = [tasks EXCEPT ![t].pc = "llm", ![t].since = now]
         /\ threads' = threads \cup {[sig |-> id, owner |-> t]}
  /\ op' = NotifyLogged(outcome)
  /\ calls' = <<>>
  /\ UNCHANGED <<now, running, task, sentiment, anomalies, webhook, acq>>

\* Variant: the result reaches the coroutine although it was cancelled.
AwaitedDespiteCancel(th) ==
  /\ tasks[th.owner].pc = "llm"
  /\ tasks[th.owner].sig = th.sig

\* Is the coroutine that dispatched thread th still awaiting its result?
Awaited(th) ==
  /\ tasks[th.owner].pc = "llm"
  /\ tasks[th.owner].sig = th.sig
  /\ ~tasks[th.owner].cancel

\* The worker thread running AgentLLM.analyze_signal finishes.  A coroutine
\* still awaiting it stores a non-empty result and goes on with the rules;
\* otherwise (cancelled) the result is dropped.
ThreadReturns(th, case, fail) ==
  /\ th \in threads
  /\ IF Awaited(th)
       THEN LET t    == th.owner
                out  == AnalyzeSignal(case)
                sigs == IF out # "empty"
                          THEN [signals EXCEPT ![th.sig].analysis = out]
                          ELSE signals
                res  == RunRules(tasks[t].rule + 1, tasks[t].snap, sigs, <<>>,
                                 now, fail)
            IN  /\ res.pc # "full"
                /\ fail = "anomaly" => res.pc = "raise"
                /\ tasks' = [tasks EXCEPT ![t] = AfterRun(tasks[t], res, now)]
                /\ signals' = res.signals
                /\ calls' = res.calls
                /\ threads' = (threads \ {th}) \cup Dispatched(res, t)
                /\ op' = OpOf(res)
       ELSE /\ fail = "none"
            /\ case = "answers"
            /\ calls' = <<>>
            /\ threads' = threads \ {th}
            /\ op' = "step"
            /\ UNCHANGED <<tasks, signals>>
  /\ UNCHANGED <<now, running, task, sentiment, anomalies, webhook, acq>>

\* trigger_real_analysis.py: insert a market_summary row, no dedup lookup.
TriggerRealAnalysis(m, case) ==
  /\ Len(signals) < MaxSignals
  /\ Cardinality({i \in 1..Len(signals) : signals[i].by = "script"}) < MaxExternal
  /\ signals' = Append(signals,
       [type |-> "market_summary", level |-> "info", msg |-> <<"status", m>>,
        ts |-> now, analysis |-> AnalyzeSignal(case), sent |-> "none", llmCalls |-> 0,
        by |-> "script", meta |-> "result"])
  /\ op' = "step"
  /\ calls' = <<>>
  /\ UNCHANGED <<now, running, task, tasks, threads, sentiment, anomalies, webhook, acq>>

\* verify_agent.main up to its call of analyze(): every SignalRecord is
\* deleted and a SentimentRecord with mood 90 becomes the latest one.  Taken
\* while no coroutine of the pipeline holds a signal.
VerifyAgentSetup ==
  /\ \A t \in 1..Len(tasks) : tasks[t].pc \notin {"notify", "llm"}
  /\ threads = {}
  /\ signals' = <<>>
  /\ sentiment' = VerifySentiment
  /\ sentAt' = now
  /\ op' = "cleanup"
  /\ calls' = <<>>
  /\ UNCHANGED <<now, running, task, tasks, threads, anomalies, webhook, radar,
                 ret, clock, cache, workers, done, thsMap, scanned, seenRows>>

\* A new SentimentRecord becomes the latest one.
NewSentiment(s) ==
  /\ s # sentiment
  /\ sentiment' = s
  /\ op' = "step"
  /\ calls' = <<>>
  /\ UNCHANGED <<now, running, task, tasks, signals, threads, anomalies, webhook, acq>>

\* Time passes only while the event loop is idle: nothing is ready to run
\* and no sleep is due.
Tick(step, limit) ==
  /\ now + step <= limit
  /\ \A t \in 1..Len(tasks) :
        Live(t) => /\ ~tasks[t].cancel
                   /\ tasks[t].pc # "new"
                   /\ tasks[t].pc = "sleep" => now + step <= tasks[t].wakeAt
  /\ now' = now + step
  /\ op' = "step"
  /\ calls' = <<>>
  /\ UNCHANGED <<running, task, tasks, signals, threads, sentiment, anomalies, webhook, acq>>

\* ------------------------------------------------------------------------
\* The data getters
\* ------------------------------------------------------------------------
\* A getter is entered: a MarketDataService getter returns the cached value
\* when Cache.get yields a truthy one; otherwise the call goes to its first
\* backend.
Get(m) ==
  /\ Len(workers) < MaxWorkers
  /\ Len(workers) + Len(done) < MaxCalls
  /\ LET w == NewWorker(m)
     IN  IF m \in CacheMetrics /\ Truthy(CacheGet(m))
           THEN /\ done' = Append(done, Returned(w, CacheGet(m), "hit", FALSE))
                /\ UNCHANGED workers
           ELSE /\ workers' = Append(workers, w)
                /\ UNCHANGED done
  /\ UNCHANGED <<now, running, task, tasks, signals, threads, sentiment,
                 anomalies, webhook, calls, op, radar, sentAt, ret, clock,
                 cache, thsMap, scanned, seenRows>>

\* The backend a getter turns to after backend p has raised its last time
\* (0: none is left).  get_concept_stocks loads the Tonghuashun name list
\* only while _ths_concept_map is empty.
NextBackend(m, p) ==
  IF p >= Len(Providers(m)) THEN 0
  ELSE IF m = "stocks" /\ p = 1 /\ thsMap THEN 3
  ELSE p + 1

\* The call of a backend returns or raises.
ProviderReturns(i, outcome) ==
  /\ i \in 1..Len(workers)
  /\ LET w  == workers[i]
         m  == w.metric
         p  == Providers(m)[w.prov]
         w1 == [w EXCEPT !.invoked = Append(@, <<p, outcome>>),
                         !.attempts = @ + 1]
         v  == IF outcome = "norows" THEN EmptyList
               ELSE Value(outcome, p, 1 + Len(SelectSeq(done, Fetched)))
         ex == OnExhausted(m)
     IN  /\ outcome \in Outcomes(m)
         /\ IF outcome # "raises" /\ p = "ths_names"
              \* the name list fills the map; the scrape comes next
              THEN /\ workers' = [workers EXCEPT ![i] =
                                    [w1 EXCEPT !.prov = 3, !.attempts = 0]]
                   /\ thsMap' = TRUE
                   /\ UNCHANGED <<done, cache>>
            ELSE IF outcome # "raises" /\ m = "stocks" /\ p = "ths" /\ outcome = "norows"
              \* an empty scrape falls through to the final return []
              THEN /\ workers' = Without(workers, i)
                   /\ done' = Append(done, Returned(w1, EmptyList, "failed", FALSE))
                   /\ UNCHANGED <<cache, thsMap>>
            ELSE IF outcome # "raises"
              THEN /\ workers' = Without(workers, i)
                   /\ done' = Append(done, Returned(w1, v, "fetched", FALSE))
                   /\ cache' = IF m \in CacheMetrics
                                 THEN CacheSet(cache, m, v, TTL(m)) ELSE cache
                   /\ thsMap' = (thsMap \/ (m = "concepts" /\ p = "ths"))
            ELSE IF Swallows(m)
              THEN /\ workers' = Without(workers, i)
                   /\ done' = Append(done, Returned(w1, EmptyList, "failed", FALSE))
                   /\ UNCHANGED <<cache, thsMap>>
            ELSE IF w1.attempts < Attempts(m)
              THEN /\ workers' = [workers EXCEPT ![i] = w1]
                   /\ UNCHANGED <<done, cache, thsMap>>
            ELSE IF NextBackend(m, w.prov) # 0 /\ p # "ths_names"
              THEN /\ workers' = [workers EXCEPT ![i] =
                        [w1 EXCEPT !.prov = NextBackend(m, w.prov), !.attempts = 0]]
                   /\ UNCHANGED <<done, cache, thsMap>>
            ELSE /\ workers' = Without(workers, i)
                 /\ done' = Append(done, Returned(w1, ex.val, "failed", ex.raised))
                 /\ cache' = IF ex.ttl > 0 THEN CacheSet(cache, m, ex.val, ex.ttl)
                             ELSE cache
                 /\ UNCHANGED thsMap
  /\ UNCHANGED <<now, running, task, tasks, signals, threads, sentiment,
                 anomalies, webhook, calls, op, radar, sentAt, ret, clock,
                 scanned, seenRows>>

\* The clock of the getters moves on.
Advance(d) ==
  /\ clock + d <= MaxClock
  /\ clock' = clock + d
  /\ UNCHANGED <<now, running, task, tasks, signals, threads, sentiment,
                 anomalies, webhook, calls, op, radar, sentAt, ret, cache,
                 workers, done, thsMap, scanned, seenRows>>

\* ttl_cache.wrapper around get_market_sentiment: the cached result while
\* it is younger than the ttl, else the function body: counts, mood, trend
\* against the latest record, and a new record unless the latest one is
\* younger than 50 seconds; the result is cached and returned.
GetMarketSentiment(f, db) ==
  /\ IF radar.has /\ (now - radar.at) * 60 < RadarTTL
       THEN /\ f = Fetch(-1, -1, -1, NoPremium) /\ db = "ok"
            /\ ret' = [mood |-> radar.mood, trend |-> radar.trend,
                       cached |-> TRUE, saved |-> FALSE, fetch |-> f, prev |-> NoSent]
            /\ UNCHANGED <<radar, sentiment, sentAt>>
       ELSE LET zt    == ZtCount(f)
                zb    == ZbCount(f)
                fried == FriedRate(zt, zb)
                mood  == Mood(zt, zb, PremiumRate(f))
                trend == IF db = "select" THEN "flat" ELSE Trend(mood, sentiment)
                save  == /\ db = "ok"
                         /\ sentiment # NoSent => (now - sentAt) * 60 >= SaveGap
            IN  /\ radar' = [has |-> TRUE, mood |-> mood, trend |-> trend, at |-> now]
                /\ ret' = [mood |-> mood, trend |-> trend, cached |-> FALSE,
                           saved |-> save, fetch |-> f, prev |-> sentiment]
                /\ IF save
                     THEN /\ sentiment' = [mood |-> mood * 10,
                                           fried |-> (100 * fried[1]) \div fried[2],
                                           trend |-> trend]
                          /\ sentAt' = now
                     ELSE UNCHANGED <<sentiment, sentAt>>
  /\ op' = "step"
  /\ calls' = <<>>
  /\ UNCHANGED <<now, running, task, tasks, signals, threads, anomalies,
                 webhook, clock, cache, workers, done, thsMap, scanned,
                 seenRows>>

\* AnomalyDetector.scan_all: the watchlist shortcut, the fetch, the loop
\* over the rows with one commit per new record, the sort of the result.
ScanAll(fetch, rows, failAt, fc) ==
  /\ fc.mode = "all" => fc.codes = {}
  /\ LET early == fc.mode = "watchlist" /\ fc.codes = {}
         st0 == [store |-> anomalies, alerts |-> <<>>, broken |-> FALSE,
                 skipped |-> {}]
         st  == IF early THEN st0
                ELSE IF fetch = "raises"
                  THEN [st0 EXCEPT !.alerts = <<ErrorAlert(now)>>]
                ELSE ScanRows(rows, 1, now, failAt, fc, st0)
     IN  /\ early \/ fetch = "raises" => rows = <<>>
         /\ early => fetch = "none"
         /\ ~early => fetch \in {"rows", "raises"}
         /\ failAt \in 0..Len(rows)
         /\ failAt # 0 => st.broken
         /\ anomalies' = st.store
         /\ scanned' = [fetch |-> fetch, rows |-> rows, at |-> now,
                        alerts |-> SortDesc(st.alerts), skipped |-> st.skipped,
                        failAt |-> failAt, filter |-> fc]
         /\ seenRows' = seenRows \cup {rows[k] : k \in (1..Len(rows)) \ st.skipped}
  /\ op' = "step"
  /\ calls' = <<>>
  /\ UNCHANGED <<now, running, task, tasks, signals, threads, sentiment,
                 webhook, radar, sentAt, ret, clock, cache, workers, done,
                 thsMap>>

\* SentimentRecord rows that become the latest one while the scheduler runs.
SchedSentiments == { [mood |-> 8500, fried |-> 3333, trend |-> "flat"] }

\* The scheduler with its escalation pipeline.
Next ==
  \/ Start
  \/ Stop
  \/ \E t \in 1..Len(tasks) : DeliverCancel(t)
  \/ \E t \in 1..Len(tasks), f \in FailPoints : BeginCycle(t, f)
  \/ \E t \in 1..Len(tasks), o \in {"ok", "error"} : NotifyReturns(t, o)
  \/ \E th \in threads, c \in LLMCases, f \in {"none", "anomaly"} : ThreadReturns(th, c, f)
  \/ \E s \in SchedSentiments : NewSentiment(s)
  \/ Tick(1, SchedTime)

Spec == Init /\ [][Next]_vars

\* SentimentRecord rows that become the latest one between polls.
StoreSentiments ==
  { [mood |-> 8500, fried |-> 1000, trend |-> "flat"],
    [mood |-> 8600, fried |-> 1000, trend |-> "up"] }

\* The signal store under its writers, over more than one dedup window.
NextStore ==
  \/ DirectAnalyze("none")
  \/ \E t \in 1..Len(tasks) : NotifyReturns(t, "ok")
  \/ \E th \in threads : ThreadReturns(th, "answers", "none")
  \/ TriggerRealAnalysis(8500, "answers")
  \/ \E s \in StoreSentiments : NewSentiment(s)
  \/ Tick(StoreStep, MaxTime)

SpecStore == Init /\ [][NextStore]_vars

\* ---- the data getters of MarketDataService and scan_all ----
AdvanceSteps == {MockTTL, LeadersTTL}

\* The clock readings that at most two advances lead to.
Moments == {a + b : a \in AdvanceSteps \cup {0}, b \in AdvanceSteps \cup {0}}

\* The keys of the cache are independent: one behaviour follows one metric.
OnlyMetric(m) ==
  /\ \A i \in 1..Len(workers) : workers[i].metric = m
  /\ \A k \in 1..Len(done) : done[k].metric = m

NextCache ==
  \/ \E m \in CacheMetrics \cup {"anomalies"} : OnlyMetric(m) /\ Get(m)
  \/ \E i \in 1..Len(workers), o \in {"rows", "norows", "raises"} :
        ProviderReturns(i, o)
  \/ \E d \in AdvanceSteps : clock + d \in Moments /\ Advance(d)

SpecCache == Init /\ [][NextCache]_vars

\* ---- the getters without a cache: retries and the backend chain ----
NextChain ==
  \/ \E m \in ChainMetrics : Get(m)
  \/ \E i \in 1..Len(workers), o \in {"rows", "norows", "raises"} :
        ProviderReturns(i, o)

SpecChain == Init /\ [][NextChain]_vars

\* ---- the sentiment radar on its own ----
MoodFetches ==
  {Fetch(30, z, b, Frac(0, 100)) : z \in {0, 10, 40}, b \in {0, 10, 30}}
  \cup {Fetch(30, 40, 10, p) : p \in {Frac(25, 100), Frac(30, 100), Frac(125, 100)}}
  \cup {Fetch(30, 100000, 0, Frac(0, 100)), Fetch(30, 0, 30, Frac(-2500, 100)),
        Fetch(30, 40, 10, Frac(2000, 100))}
  \cup {Fetch(-1, -1, -1, NoPremium), Fetch(30, -1, -1, NoPremium),
        Fetch(30, -1, 10, NoPremium)}

NextMood ==
  \/ \E f \in MoodFetches : GetMarketSentiment(f, "ok")
  \/ \E db \in {"select", "commit"} :
        GetMarketSentiment(Fetch(30, 40, 10, Frac(30, 100)), db)
  \/ Tick(1, MoodTime)

SpecMood == Init /\ [][NextMood]_vars

\* ---- the scheduler next to the sentiment radar ----
FreshFetches == {Fetch(30, 180, 20, Frac(0, 100)), Fetch(30, 40, 10, Frac(0, 100))}

NextFresh ==
  \/ Start
  \/ \E t \in 1..Len(tasks) : BeginCycle(t, "none")
  \/ \E t \in 1..Len(tasks) : NotifyReturns(t, "ok")
  \/ \E th \in threads : ThreadReturns(th, "answers", "none")
  \/ \E f \in FreshFetches \cup {Fetch(-1, -1, -1, NoPremium)} :
        GetMarketSentiment(f, "ok")
  \/ Tick(1, FreshTime)

SpecFresh == Init /\ [][NextFresh]_vars

\* ---- the anomaly scans over two calendar days ----
RowA == FeedRow("rocket_launch", "c1", 0, "ok")
RowB == FeedRow("quick_rebound", "c1", 0, "ok")
RowU == FeedRow("unlisted", "c2", 1, "ok")
RowM == FeedRow("high_dive", "c2", 0, "bad_time")
RowD == FeedRow("large_sell", "c1", 1, "ok")

ScanBatches == {<<RowA, RowM, RowU>>, <<RowA, RowB>>, <<RowU, RowD>>}

ScanFilters == {NoFilter, [mode |-> "leaders", codes |-> {"c1"}]}

\* The feed lists the events of the running day up to the present; before
\* the next session opens it still lists those of the day before.
FeedServes(rows) ==
  \A k \in 1..Len(rows) : rows[k].tod <= now % DayMinutes \/ now >= DayMinutes

NextScan ==
  \/ \E b \in ScanBatches, fc \in ScanFilters : \E k \in 0..Len(b) :
        FeedServes(b) /\ ScanAll("rows", b, k, fc)
  \/ ScanAll("raises", <<>>, 0, NoFilter)
  \/ ScanAll("none", <<>>, 0, [mode |-> "watchlist", codes |-> {}])
  \/ Tick(1, ScanTime)
  \/ Tick(DayMinutes, DayMinutes + ScanTime)

SpecScan == Init /\ [][NextScan]_vars

\* ---- the scheduler next to the anomaly scans ----
StockCodes == <<"c1", "c2", "c3", "c4", "c5", "c6", "c7">>

\* The feed after n stocks moved the same way: the first six in minute 0,
\* the seventh a minute later.
BurstRows(cat, n) ==
  [i \in 1..n |-> FeedRow(cat, StockCodes[i],
                          IF i <= BurstThreshold + 1 THEN 0 ELSE 1, "ok")]

BurstBatches ==
  {BurstRows("rocket_launch", BurstThreshold + 1),
   BurstRows("rocket_launch", BurstThreshold + 2),
   BurstRows("high_dive", BurstThreshold + 1)}

\* A record that fires none of the sentiment rules.
CalmSentiment == [mood |-> 5000, fried |-> 1000, trend |-> "flat"]

NextBurst ==
  \/ Start
  \/ \E t \in 1..Len(tasks) : BeginCycle(t, "none")
  \/ \E t \in 1..Len(tasks) : NotifyReturns(t, "ok")
  \/ \E th \in threads : ThreadReturns(th, "answers", "none")
  \/ \E b \in BurstBatches : FeedServes(b) /\ ScanAll("rows", b, 0, NoFilter)
  \/ NewSentiment(CalmSentiment)
  \/ Tick(1, BurstTime)

SpecBurst == Init /\ [][NextBurst]_vars

\* ---- the rules and the escalation of one signal, with stop() ----
RuleSentiments ==
  { [mood |-> m, fried |-> f, trend |-> "flat"] :
      m \in {MoodThreshold, MoodThreshold + 1},
      f \in {FriedThreshold, FriedThreshold + 1} }

DeliveryOutcomes == {"ok", "rejected", "error"}

NextEscalate ==
  \/ Start
  \/ Stop
  \/ \E t \in 1..Len(tasks) : DeliverCancel(t)
  \/ \E t \in 1..Len(tasks) : BeginCycle(t, "none")
  \/ \E t \in 1..Len(tasks), o \in DeliveryOutcomes : NotifyReturns(t, o)
  \/ \E th \in threads : ThreadReturns(th, "answers", "none")
  \/ \E s \in RuleSentiments : NewSentiment(s)
  \/ Tick(1, EscalateTime)

SpecEscalate == Init /\ [][NextEscalate]_vars

\* ---- the signal store under the pipeline and the two scripts ----
NextWriters ==
  \/ VerifyAgentSetup
  \/ DirectAnalyze("none")
  \/ \E t \in 1..Len(tasks) : NotifyReturns(t, "ok")
  \/ \E th \in threads : ThreadReturns(th, "answers", "none")
  \/ TriggerRealAnalysis(9000, "answers")
  \/ Tick(1, WritersTime)

SpecWriters == Init /\ [][NextWriters]_vars

\* ------------------------------------------------------------------------
\* Properties
\* ------------------------------------------------------------------------
SamePair(a, b) == a.type = b.type /\ a.msg = b.msg

InCycle(t) == tasks[t].pc \in {"notify", "llm"}
InProgress(t) == InCycle(t) \/ \E th \in threads : th.owner = t

Created(cs) == {k \in 1..Len(cs) : cs[k].created}

\* C1: _create_signal persists a row exactly when no row with the same
\* (type, message) was created in the ten minutes before the call; the row
\* it persists carries the call's type, level, message and time, and a
\* suppressed call adds nothing.
C1_DedupGate ==
  /\ \A k \in 1..Len(calls) :
       LET c == calls[k]
       IN  /\ c.created <=>
                ~\E i \in 1..c.before :
                    SamePair(signals[i], c) /\ c.ts - signals[i].ts <= DedupWindow
           /\ c.created =>
                /\ Len(signals) > c.before
                /\ SamePair(signals[c.before + 1], c)
                /\ signals[c.before + 1].level = c.level
                /\ signals[c.before + 1].ts = c.ts
  /\ calls # <<>> => Len(signals) = calls[1].before + Cardinality(Created(calls))

\* C1 witness: a call persisted a second row for a pair whose first row is
\* older than the window.
C1_Witness ==
  \E k \in 1..Len(calls) :
     /\ calls[k].created
     /\ \E i \in 1..calls[k].before :
           SamePair(signals[i], calls[k]) /\ calls[k].ts - signals[i].ts > DedupWindow

Spike(i) == signals[i].type = "sentiment_spike"

\* C2 as stated: once a poll at mood 85 has created a sentiment_spike
\* signal, a poll inside the dedup window at mood 86 creates no second one.
C2_NoSecondSpike ==
  ~\E i, j \in 1..Len(signals) :
      /\ i < j /\ Spike(i) /\ Spike(j)
      /\ signals[i].msg = <<"overheating", 850>>
      /\ signals[j].msg = <<"overheating", 860>>
      /\ signals[j].ts - signals[i].ts <= DedupWindow

\* C2 amended: a poll that finds a mood above 80 leaves a sentiment_spike
\* row, not older than the window, whose message carries that mood to one
\* decimal; no two sentiment_spike rows with the same message lie within one
\* window, and a suppressed attempt found a row with its own message.
C2_SpikePerMoodText ==
  /\ \A k \in 1..Len(calls) :
       calls[k].type = "sentiment_spike" =>
         /\ sentiment.mood > MoodThreshold
         /\ \E i \in 1..Len(signals) :
               /\ Spike(i)
               /\ signals[i].level = "warning"
               /\ signals[i].msg = <<"overheating", sentiment.mood \div 10>>
               /\ now - signals[i].ts <= DedupWindow
         /\ ~calls[k].created =>
               signals[calls[k].existing].msg = <<"overheating", sentiment.mood \div 10>>
  /\ \A i, j \in 1..Len(signals) :
       (i < j /\ Spike(i) /\ Spike(j) /\ signals[i].msg = signals[j].msg)
         => signals[j].ts - signals[i].ts > DedupWindow

\* C2 witness: rows for 85.0 and 86.0 stand within one window, and a
\* further poll at one of the two moods was suppressed.
C2_Witness ==
  /\ ~C2_NoSecondSpike
  /\ \E k \in 1..Len(calls) : calls[k].type = "sentiment_spike" /\ ~calls[k].created

\* C3 as stated: no two rows of the signal table with equal (type, message)
\* are less than ten minutes apart, whoever wrote them.
C3_NoRecurrenceAnyWriter ==
  \A i, j \in 1..Len(signals) :
     (i < j /\ SamePair(signals[i], signals[j]))
       => signals[j].ts - signals[i].ts >= DedupWindow

\* C3 amended: no two rows written by _create_signal (from concurrent
\* analyze() coroutines of one process) with equal (type, message) are less
\* than ten minutes apart; rows inserted by trigger_real_analysis are not
\* covered.
C3_NoRecurrenceByAgent ==
  \A i, j \in 1..Len(signals) :
     (i < j /\ signals[i].by = "agent" /\ signals[j].by = "agent"
        /\ SamePair(signals[i], signals[j]))
       => signals[j].ts - signals[i].ts >= DedupWindow

\* C3 witness: while one analyze() coroutine awaits the escalation of a row,
\* a call of another coroutine for the same pair was suppressed, and the
\* table also holds a row of the script.
C3_Witness ==
  /\ \E t \in 1..Len(tasks), k \in 1..Len(calls) :
        /\ InCycle(t)
        /\ ~calls[k].created
        /\ calls[k].existing = tasks[t].sig
  /\ \E i \in 1..Len(signals) : signals[i].by = "script"

\* C4 as stated: a call that finds a duplicate returns the existing row.
C4_DupReturnsExisting ==
  \A k \in 1..Len(calls) :
     ~calls[k].created => calls[k].ret = calls[k].existing

\* C4 amended: a call that finds a duplicate returns nothing (None), and a
\* step whose calls all found duplicates leaves the signal table and the set
\* of running analysis threads as they were; no row is ever notified or
\* analysed twice.
C4_DupIsNoOp ==
  /\ [](/\ \A k \in 1..Len(calls) :
             ~calls[k].created => calls[k].ret = 0 /\ calls[k].existing # 0
        /\ \A i \in 1..Len(signals) : signals[i].llmCalls <= 1)
  /\ [][(/\ calls' # <<>>
         /\ Created(calls') = {}
         /\ threads \subseteq threads')
          => signals' = signals /\ threads' = threads]_vars

\* C4 witness: an escalated row exists and a later call for its pair was
\* suppressed.
C4_Witness ==
  \E k \in 1..Len(calls) :
     /\ ~calls[k].created
     /\ signals[calls[k].existing].level \in Escalated
     /\ signals[calls[k].existing].llmCalls = 1

\* C5: a failed analysis (the LLM call raises, or no LLM is configured)
\* leaves the row's analysis absent, and the row is analysed at most once.
C5_FailedAnalysisAbsent ==
  \A i \in 1..Len(signals) :
     /\ signals[i].analysis \notin {"failed_text", "unconfigured_text"}
     /\ signals[i].llmCalls <= 1

C7_OneCycleInProgress ==
  Cardinality({t \in 1..Len(tasks) : InProgress(t)}) <= 1

\* C7 amended: never two loop tasks inside analyze() at once, for any
\* sequence of start(), stop() and restart; an analysis call left running
\* by a cancelled cycle may overlap the next loop's cycle.
C7_OneLoopInAnalyze ==
  /\ Cardinality({t \in LoopTasks : InCycle(t)}) <= 1
  /\ Cardinality({t \in LoopTasks : Live(t) /\ ~tasks[t].cancel}) <= 1

\* C7 witness: a restarted loop is inside analyze() while a thread of the
\* cancelled loop is still running.
C7_Witness ==
  \E t, u \in LoopTasks :
     /\ t < u /\ ~Live(t) /\ InCycle(u)
     /\ \E th \in threads : th.owner = t

\* C8: the scheduler starts stopped; start() while running and stop() while
\* stopped change nothing, and only start() leaves the stopped state.
C8_StartStopIdempotent ==
  /\ ~running
  /\ [][/\ (op' = "start" /\ running) =>
              UNCHANGED <<now, running, task, tasks, signals, threads, sentiment>>
        /\ (op' = "stop" /\ ~running) =>
              UNCHANGED <<now, running, task, tasks, signals, threads, sentiment>>
        /\ (~running /\ running') => op' = "start"]_vars

\* C8 witness: start() was called on a scheduler whose loop task had
\* already run, and there is still one loop task.
C8_Witness ==
  /\ op = "start" /\ running
  /\ Cardinality(LoopTasks) = 1
  /\ tasks[task].pc \in {"sleep", "llm", "notify"}

Began(t) ==
  /\ tasks[t].pc \in {"new", "sleep"}
  /\ tasks'[t].pc # "done"
  /\ tasks'[t] # tasks[t]
  /\ tasks'[t].cancel = tasks[t].cancel

\* C9: a loop task that stop() was called on begins no further cycle and is
\* gone before time advances (it does not wait out its sleep); no cycle
\* begins while the scheduler is stopped.
C9_StopEndsLoop ==
  /\ [](\A t \in LoopTasks :
          (Live(t) /\ tasks[t].stopAt # -1) => now = tasks[t].stopAt)
  /\ [][\A t \in LoopTasks :
          /\ (Live(t) /\ tasks[t].stopAt # -1) => tasks'[t].pc \in {tasks[t].pc, "done"}
          /\ Began(t) => running /\ tasks[t].stopAt = -1]_vars

\* C9 witness: a loop task ended by stop() in its sleep, before the sleep
\* was over.
C9_Witness ==
  \E t \in LoopTasks : ~Live(t) /\ tasks[t].endedIn = "sleep" /\ tasks[t].early

\* C10: when a cycle raises, the scheduler stays running and the loop task
\* sleeps one interval towards its next cycle; a loop task that had failing
\* cycles ends only by cancellation.
C10_FailedCycleKeepsLoop ==
  /\ op = "raise" =>
       /\ running
       /\ tasks[task].pc = "sleep"
       /\ tasks[task].failed
       /\ tasks[task].wakeAt = now + SleepInterval
  /\ \A t \in LoopTasks :
       (tasks[t].failed /\ ~Live(t)) =>
          tasks[t].endedIn \in {"new", "sleep", "notify", "llm"}

\* C10 witness: a loop task is inside a cycle begun after an earlier cycle
\* of the same task raised.
C10_Witness ==
  \E t \in LoopTasks : tasks[t].failed /\ InCycle(t)

\* C11 as stated: the sentiment record that the rules of a poll cycle
\* evaluate was fetched from the backends no longer ago than the cache ttl
\* of the radar.
C11_CycleSeesFreshSnapshot ==
  [][\A t \in LoopTasks :
       (Began(t) /\ running /\ sentiment # NoSent)
          => (now - sentAt) * 60 <= RadarTTL]_vars

\* The last value that a call before done[k] fetched successfully.
LastFetched(k) ==
  LET js == {j \in 1..(k - 1) : done[j].how = "fetched"}
  IN  IF js = {} THEN None
      ELSE done[CHOOSE j \in js : \A i \in js : i <= j].ret

\* C12 as stated: a call that finds the entry of its metric expired and whose
\* backends all fail returns the value of the last successful fetch, when
\* there was one.
C12_ServesLastGood ==
  \A k \in 1..Len(done) :
     (/\ done[k].how = "failed"
      /\ done[k].seen = "expired"
      /\ LastFetched(k) # None)
        => done[k].ret = LastFetched(k)

\* What each getter hands back when its backends are exhausted.
FallbackKind(m) ==
  CASE m \in {"heatmap", "leaders"} -> "mock"
    [] m = "sentiment" -> "error"
    [] m = "anomalies" -> "error_entry"
    [] OTHER -> "norows"

FromFetch(v) == v.kind \in {"rows", "norows"}

\* C14 as stated: a call that finds an unexpired entry stored by a
\* successful fetch returns that entry and invokes no backend, whatever the
\* stored value is.
C14_FreshEntryServed ==
  /\ \A i \in 1..Len(workers) :
        ~(workers[i].seen = "fresh" /\ FromFetch(workers[i].was))
  /\ \A k \in 1..Len(done) :
        (done[k].seen = "fresh" /\ FromFetch(done[k].was))
           => /\ done[k].how = "hit"
              /\ done[k].ret = done[k].was
              /\ done[k].invoked = <<>>

\* C15 as stated: an entry that holds fetched data is not replaced or
\* removed while it is unexpired.
C15_FreshEntryKept ==
  [][\A m \in CacheMetrics :
       (FromFetch(cache[m].val) /\ clock < cache[m].expiry)
          => cache'[m] = cache[m]]_vars

\* The invocations of backend p among inv, and those that raised.
CallsOf(inv, p) == {k \in 1..Len(inv) : inv[k][1] = p}
Raised(inv, k) == inv[k][2] = "raises"

\* C16 as stated: within one get call a backend that raises is invoked
\* again until it succeeds or has been invoked twice, and never more often.
C16_RaisingBackendRetried ==
  /\ \A i \in 1..Len(workers) :
        \A p \in {"em", "ths", "ths_names", "legu", "baidu"} :
           Cardinality(CallsOf(workers[i].invoked, p)) <= FetchAttempts
  /\ \A k \in 1..Len(done) :
        \A p \in {"em", "ths", "ths_names", "legu", "baidu"} :
           LET inv == done[k].invoked
               ks  == CallsOf(inv, p)
           IN  /\ Cardinality(ks) <= FetchAttempts
               /\ (\E j \in ks : Raised(inv, j))
                    => \/ Cardinality(ks) = FetchAttempts
                       \/ \E j \in ks : ~Raised(inv, j)

Concept(m) == m \in {"concepts", "stocks"}
Secondary(p) == p \in {"ths", "ths_names"}

\* The invocations of a concept getter keep the order of the chain.
ChainOrder(inv) ==
  /\ inv # <<>> => inv[1][1] = "em"
  /\ \A k \in 1..Len(inv) :
        Secondary(inv[k][1]) => \E j \in 1..(k - 1) : inv[j] = <<"em", "raises">>
  /\ \A k \in 2..Len(inv) : inv[k][1] # "em"

\* C17: a concept getter asks EastMoney first and Tonghuashun only after
\* EastMoney has raised; when EastMoney answers, its data is returned and
\* Tonghuashun is not invoked; when EastMoney raises and Tonghuashun
\* delivers rows, the rows of Tonghuashun are returned.
C17_SecondaryAfterPrimary ==
  /\ \A i \in 1..Len(workers) :
        Concept(workers[i].metric) => ChainOrder(workers[i].invoked)
  /\ \A k \in 1..Len(done) :
        Concept(done[k].metric) =>
          LET inv == done[k].invoked
          IN  /\ ChainOrder(inv)
              /\ inv[1][2] = "rows" =>
                    /\ Len(inv) = 1
                    /\ done[k].ret.kind = "rows" /\ done[k].ret.src = "em"
              /\ inv[1][2] = "norows" =>
                    Len(inv) = 1 /\ done[k].ret = EmptyList
              /\ (inv[1][2] = "raises" /\ inv[Len(inv)] = <<"ths", "rows">>) =>
                    done[k].ret.kind = "rows" /\ done[k].ret.src = "ths"

\* C17 witness: get_concept_stocks returned the rows scraped from
\* Tonghuashun after EastMoney raised and the name list was loaded.
C17_Witness ==
  \E k \in 1..Len(done) :
     /\ done[k].metric = "stocks"
     /\ done[k].invoked = <<<<"em", "raises">>, <<"ths_names", "rows">>, <<"ths", "rows">>>>
     /\ done[k].ret.src = "ths"

\* The counts and the premium a fresh result of the radar was computed from.
Computed == ret # NoRet /\ ~ret.cached
ZtUsed == ZtCount(ret.fetch)
ZbUsed == ZbCount(ret.fetch)
PremUsed == PremiumRate(ret.fetch)

Bounded(x) ==
  IF FLess(x, Frac(0, 1)) THEN Frac(0, 1)
  ELSE IF FLess(Frac(100, 1), x) THEN Frac(100, 1)
  ELSE x

\* 50 + Z/5 - (B/(Z+B)) * c * 0.5 + P * 2, the fried term 0 when Z + B = 0
Formula(c) ==
  FAdd(FSub(FAdd(Frac(50, 1), Frac(ZtUsed, 5)),
            IF ZtUsed + ZbUsed = 0 THEN Frac(0, 1)
            ELSE Frac(ZbUsed * c, 2 * (ZtUsed + ZbUsed))),
       Frac(2 * PremUsed[1], PremUsed[2]))

\* C18 as stated: the computed mood equals
\* clamp(50 + Z/5 - (B/(Z+B)) * 50 * 0.5 + P * 2, 0, 100).
C18_MoodIsSpecFormula ==
  Computed => Frac(ret.mood, 10) = Bounded(Formula(50))

\* C18 amended: the computed mood is
\* clamp(50 + Z/5 - (B/(Z+B)) * 100 * 0.5 + P * 2, 0, 100) rounded to one
\* decimal (ties to even), the fried term being 0 when Z + B = 0.
C18_MoodIsRoundedFormula ==
  Computed =>
    LET x    == Bounded(Formula(100))
        diff == FSub(Frac(ret.mood, 10), x)
        dist == IF diff[1] < 0 THEN Frac(-diff[1], diff[2]) ELSE diff
    IN  /\ ~FLess(Frac(1, 20), dist)
        /\ dist = Frac(1, 20) => ret.mood % 2 = 0

\* C18 witness: 40 limit-ups and 30 fried boards give 36.571..., returned
\* as 36.6.
C18_Witness ==
  Computed /\ ZtUsed = 40 /\ ZbUsed = 30 /\ PremUsed = Frac(0, 1) /\ ret.mood = 366

\* C19: every mood the radar returns, caches or persists lies in [0, 100].
C19_MoodInRange ==
  /\ ret # NoRet => ret.mood \in 0..1000
  /\ radar.has => radar.mood \in 0..1000
  /\ sentiment # NoSent => sentiment.mood \in 0..10000

\* C19 witness: 100000 limit-ups and no fried board were returned and
\* persisted as mood 100.
C19_Witness ==
  /\ Computed /\ ret.saved /\ ZtUsed = 100000 /\ ZbUsed = 0
  /\ ret.mood = 1000 /\ sentiment.mood = 10000

\* C20: the trend of a computed result is taken against the latest
\* persisted record: flat when there is none or the moods differ by at most
\* 0.5, up only when the new mood is more than 0.5 above it, down only when
\* it is more than 0.5 below it.
C20_TrendHysteresis ==
  /\ [](Computed =>
          LET d == ret.mood * 10 - ret.prev.mood
          IN  /\ ret.trend \in {"up", "down", "flat"}
              /\ ret.trend = "up" => ret.prev # NoSent /\ d > 50
              /\ ret.trend = "down" => ret.prev # NoSent /\ d < -50
              /\ (ret.prev = NoSent \/ (d <= 50 /\ d >= -50)) => ret.trend = "flat")
  /\ [][(ret' # ret /\ ~ret'.cached) =>
          /\ ret'.prev = sentiment
          /\ ret'.saved => sentiment'.trend = ret'.trend]_vars

\* C20 witness: a mood of 48.5 against a persisted 48.0 came out flat.
C20_Witness ==
  Computed /\ ret.prev # NoSent /\ ret.prev.mood = 4800 /\ ret.mood = 485
           /\ ret.trend = "flat"

AnomalyTypes == {"rocket", "dive", "big_order_buy", "big_order_sell"}
Severities == {"low", "medium", "high"}

Unlisted(row) == row.cat \notin DOMAIN TYPE_MAP

\* The rows of the last scan that were handled with a working session and
\* a time that parses.
Sound(k) ==
  /\ scanned.rows[k].form = "ok"
  /\ scanned.failAt = 0 \/ k < scanned.failAt

\* C22: every anomaly record and every returned entry built from a feed row
\* has its type among rocket, dive, big_order_buy, big_order_sell and its
\* severity among low, medium, high; a row whose category is missing from
\* the table is classified (rocket, low) and is kept: it is returned and a
\* record with its code, time and type rocket is in the store.
C22_ClassificationTotal ==
  /\ \A a \in BagToSet(anomalies) :
        /\ a.type \in AnomalyTypes /\ a.severity \in Severities
        /\ a.change_type \notin DOMAIN TYPE_MAP =>
             a.type = "rocket" /\ a.severity = "low"
  /\ scanned.fetch = "rows" =>
       \A i \in 1..Len(scanned.alerts) :
          /\ scanned.alerts[i].type \in AnomalyTypes
          /\ scanned.alerts[i].severity \in Severities
  /\ \A k \in 1..Len(scanned.rows) :
       LET row == scanned.rows[k]
       IN  Unlisted(row) /\ Sound(k) =>
             /\ k \notin scanned.skipped
             /\ \E a \in BagToSet(anomalies) :
                   /\ a.code = row.code /\ a.type = "rocket"
                   /\ a.ts = Today(scanned.at) + row.tod
             /\ Passes(scanned.filter, row.code) =>
                  \E i \in 1..Len(scanned.alerts) :
                     /\ scanned.alerts[i].change_type = row.cat
                     /\ scanned.alerts[i].code = row.code
                     /\ scanned.alerts[i].type = "rocket"
                     /\ scanned.alerts[i].severity = "low"

\* C22 witness: a scan returned a row of an unlisted category and its record
\* is in the store.
C22_Witness ==
  /\ \E k \in 1..Len(scanned.rows) :
        /\ Unlisted(scanned.rows[k]) /\ Sound(k)
        /\ \E i \in 1..Len(scanned.alerts) :
              scanned.alerts[i].change_type = scanned.rows[k].cat
  /\ \E a \in BagToSet(anomalies) : a.change_type \notin DOMAIN TYPE_MAP

\* What became of row k of the last scan: a record with its key is in the
\* store and, if it passes the filter, an entry for it was returned.
Processed(k) ==
  LET row == scanned.rows[k]
  IN  /\ k \notin scanned.skipped
      /\ \E a \in BagToSet(anomalies) :
            /\ a.code = row.code /\ a.type = InternalType(row.cat)
            /\ a.ts = Today(scanned.at) + row.tod
      /\ Passes(scanned.filter, row.code) =>
           \E i \in 1..Len(scanned.alerts) :
              /\ scanned.alerts[i].change_type = row.cat
              /\ scanned.alerts[i].code = row.code

\* The rows of the last scan whose own processing raised: the time string
\* does not parse, or the commit of the new record failed.
Failed(k) == scanned.rows[k].form # "ok" \/ k = scanned.failAt

\* C23 as stated: in one scan a row whose processing fails is skipped, and
\* every other row of the batch, before and after it, is classified,
\* persisted if new, and returned.
C23_OtherRowsProcessed ==
  \A k \in 1..Len(scanned.rows) :
     IF Failed(k) THEN k \in scanned.skipped ELSE Processed(k)

\* The rocket and dive records a poll at time t would count.
Counted(store, ty, t) ==
  SumCopies(store, {a \in BagToSet(store) : a.type = ty /\ a.ts >= t - BurstWindow})

\* C30 as stated: the store holds at most one record per (code, event time,
\* internal type), and a scan of feed rows that were all seen before does
\* not increase the number of anomalies the burst rule counts.
C30_RescanAddsNothing ==
  /\ [](\A a, b \in BagToSet(anomalies) :
          /\ CopiesIn(a, anomalies) = 1
          /\ (a.code = b.code /\ a.ts = b.ts /\ a.type = b.type) => a = b)
  /\ [][(/\ scanned'.fetch = "rows"
         /\ anomalies' # anomalies \/ scanned' # scanned
         /\ \A k \in 1..Len(scanned'.rows) : scanned'.rows[k] \in seenRows)
        => \A ty \in {"rocket", "dive"} :
              Counted(anomalies', ty, now) <= Counted(anomalies, ty, now)]_vars

RocketBurst(s) == s.type = "anomaly_burst" /\ s.msg[1] = "rocket_burst"

\* A step in which a loop task runs analyze() from its first line past the
\* rocket rule.
PollsRockets(t) ==
  /\ t \in LoopTasks /\ running
  /\ tasks[t].pc \in {"new", "sleep"}
  /\ tasks'[t].pc \in {"sleep", "notify", "llm"}
  /\ tasks'[t] # tasks[t]

\* C21 as stated: once more than 5 rocket anomalies fall in the trailing
\* 5-minute window, the poll cycles of the following dedup window create
\* exactly one anomaly_burst signal for the rocket burst: a poll that finds
\* the burst leaves one such signal in the window, and no second one is
\* created inside the window.
C21_OneSignalPerBurst ==
  /\ [](\A i, j \in 1..Len(signals) :
          (i < j /\ RocketBurst(signals[i]) /\ RocketBurst(signals[j]))
             => signals[j].ts - signals[i].ts > DedupWindow)
  /\ [][\A t \in 1..Len(tasks) :
          (PollsRockets(t) /\ Counted(anomalies, "rocket", now) > BurstThreshold)
             => \E i \in 1..Len(signals') :
                   /\ RocketBurst(signals'[i])
                   /\ now - signals'[i].ts <= DedupWindow]_vars

\* C21, amended: a poll that reads a sentiment record and finds n > 5 rocket
\* anomalies in the trailing window leaves exactly one anomaly_burst signal
\* with the text for n in the dedup window, at level info; it calls
\* _create_signal for the rocket burst once, not once per anomaly; polls that
\* find another n create a further signal with the text for that n.
C21_OneSignalPerCount ==
  /\ [](\A i, j \in 1..Len(signals) :
          (i < j /\ RocketBurst(signals[i]) /\ signals[i].msg = signals[j].msg)
             => signals[j].ts - signals[i].ts > DedupWindow)
  /\ [](\A i \in 1..Len(signals) :
          RocketBurst(signals[i]) =>
             /\ signals[i].msg[2] > BurstThreshold
             /\ signals[i].level = "info")
  /\ [](Cardinality({k \in 1..Len(calls) : RocketBurst(calls[k])}) <= 1)
  /\ [][\A t \in 1..Len(tasks) :
          (/\ PollsRockets(t) /\ sentiment # NoSent
           /\ Counted(anomalies, "rocket", now) > BurstThreshold)
             => \E i \in 1..Len(signals') :
                      /\ signals'[i].msg =
                           <<"rocket_burst", Counted(anomalies, "rocket", now)>>
                      /\ signals'[i].type = "anomaly_burst"
                      /\ now - signals'[i].ts <= DedupWindow]_vars

\* C21 witness: a later poll found the same burst again and its call for the
\* rocket burst was suppressed by the signal of the earlier poll.
C21_Witness ==
  \E k \in 1..Len(calls) :
     /\ RocketBurst(calls[k]) /\ ~calls[k].created
     /\ signals[calls[k].existing].ts < calls[k].ts
     /\ Counted(anomalies, "rocket", now) > BurstThreshold

\* C29: while no sentiment record exists no step creates a signal, starts a
\* notification or dispatches an analysis, and no _create_signal call is
\* made, however many rocket or dive anomalies lie in the window.
C29_NoSentimentNoSignal ==
  [][sentiment = NoSent =>
       /\ signals' = signals
       /\ threads' = threads
       /\ calls' = <<>>
       /\ \A t \in 1..Len(tasks') : tasks'[t].pc \notin {"notify", "llm"}]_vars

\* C29 witness: a poll cycle has just run to its sleep with more than 5
\* rocket anomalies, scanned earlier, in the window and no sentiment record.
C29_Witness ==
  /\ sentiment = NoSent /\ signals = <<>>
  /\ scanned.fetch = "rows" /\ scanned.at < now
  /\ Counted(anomalies, "rocket", now) > BurstThreshold
  /\ \E t \in LoopTasks : tasks[t].pc = "sleep" /\ tasks[t].wakeAt = now + SleepInterval

\* The columns of a SignalRecord other than analysis_content.
SameSignal(a, b) ==
  /\ a.type = b.type /\ a.level = b.level /\ a.msg = b.msg
  /\ a.meta = b.meta /\ a.ts = b.ts /\ a.by = b.by

AnalysisTexts == {"text", "unconfigured_text", "failed_text"}

\* Every row stays, with its columns, and its analysis changes only from
\* absent to a text.
RowsKept ==
  \A i \in 1..Len(signals) :
     /\ i <= Len(signals')
     /\ SameSignal(signals[i], signals'[i])
     /\ \/ signals'[i].analysis = signals[i].analysis
        \/ signals[i].analysis = "none" /\ signals'[i].analysis \in AnalysisTexts

Attempt(cs, ty) == \E k \in 1..Len(cs) : cs[k].type = ty

\* The step in which the post of task t's notification completes.
Delivering(t) ==
  tasks[t].pc = "notify" /\ ~tasks[t].cancel /\ tasks'[t] # tasks[t]
  /\ ~tasks'[t].cancel

\* The step in which the coroutine of task t gets the analysis it awaits.
Resumes(t) ==
  tasks[t].pc = "llm" /\ ~tasks[t].cancel /\ tasks'[t] # tasks[t]
  /\ ~tasks'[t].cancel

\* C24: whatever the outcome of the delivery (delivered, rejected, failed,
\* or skipped for want of a webhook), the persisted rows stay as they are,
\* the analysis of the signal is dispatched, and after the analysis the
\* cycle goes on with the remaining rules.
C24_DeliveryNeverBlocks ==
  /\ [][\A t \in 1..Len(tasks) :
          Delivering(t) =>
            /\ Len(signals') = Len(signals)
            /\ \A i \in 1..Len(signals) :
                  /\ SameSignal(signals[i], signals'[i])
                  /\ signals'[i].analysis = signals[i].analysis
            /\ tasks'[t].pc = "llm"
            /\ tasks'[t].sig = tasks[t].sig
            /\ tasks'[t].rule = tasks[t].rule
            /\ tasks'[t].snap = tasks[t].snap
            /\ [sig |-> tasks[t].sig, owner |-> t] \in threads']_vars
  /\ [](op \in {"rejected", "error"} =>
          \E t \in 1..Len(tasks) :
             /\ tasks[t].pc = "llm" /\ tasks[t].sig \in 1..Len(signals)
             /\ [sig |-> tasks[t].sig, owner |-> t] \in threads)
  /\ [](\A i \in 1..Len(signals) :
          signals[i].sent = "skipped" => signals[i].llmCalls >= 1)
  /\ [][\A t \in 1..Len(tasks) :
          (Resumes(t) /\ tasks[t].rule = 1) =>
             (Attempt(calls', "risk_alert")
                <=> tasks[t].snap.fried > FriedThreshold)]_vars

\* C24 witness: a delivery was rejected or failed, and the analysis of the
\* signal is running.
C24_Witness ==
  /\ op \in {"rejected", "error"}
  /\ \E t \in 1..Len(tasks) :
        /\ tasks[t].pc = "llm"
        /\ signals[tasks[t].sig].sent = "done"
        /\ [sig |-> tasks[t].sig, owner |-> t] \in threads

\* C25 as stated: once a signal is persisted by the pipeline, its type,
\* level, message, metadata and creation time never change, it is never
\* deleted, and its analysis changes at most once, from absent to a text.
C25_SignalsImmutable ==
  [][RowsKept]_vars

\* C25, the part that holds: no step of the pipeline (analyze,
\* _create_signal, the notification, the analysis thread) and no run of
\* trigger_real_analysis.py deletes a persisted signal or changes its type,
\* level, message, metadata or creation time, and its analysis changes at
\* most once, from absent to a text; the clean-up of verify_agent.py is the
\* one step that removes signals.
C25_PipelineKeepsSignals ==
  [][op' # "cleanup" => RowsKept]_vars

\* C25 witness: a signal of the pipeline got its analysis and another
\* signal was written after it.
C25_Witness ==
  \E i, j \in 1..Len(signals) :
     /\ i < j /\ signals[i].by = "agent" /\ signals[i].analysis = "text"

\* stop() has been called while the analysis that task t dispatched is
\* pending.
Interrupted(t) ==
  /\ Live(t) /\ tasks[t].cancel /\ tasks[t].pc = "llm"
  /\ [sig |-> tasks[t].sig, owner |-> t] \in threads

\* C26: when stop() is called while an analysis dispatched by the running
\* cycle is pending, the next step of the cycle ends it: no signal is
\* created, no notification started, no analysis dispatched; the result of
\* the thread is dropped, so the signal stays persisted with its analysis
\* absent; an analysis is always absent or a whole text.
C26_StopDuringAnalysis ==
  /\ [][\A t \in 1..Len(tasks) :
          (Interrupted(t) /\ tasks'[t] # tasks[t]) =>
             /\ tasks'[t].pc = "done"
             /\ signals' = signals
             /\ threads' = threads
             /\ calls' = <<>>]_vars
  /\ [][\A t \in 1..Len(tasks) :
          (t \in LoopTasks /\ tasks[t].pc = "done") => tasks'[t] = tasks[t]]_vars
  /\ [][\A th \in threads :
          (th \notin threads' /\ tasks[th.owner].pc = "done") =>
             /\ signals' = signals
             /\ tasks' = tasks
             /\ calls' = <<>>]_vars
  /\ [][RowsKept]_vars
  /\ [](\A i \in 1..Len(signals) :
          signals[i].analysis \in AnalysisTexts \cup {"none"})

\* C26 witness: a cycle was ended by stop() while it awaited an analysis,
\* the thread has returned, and the signal is there without an analysis.
C26_Witness ==
  /\ \E t \in LoopTasks : tasks[t].pc = "done" /\ tasks[t].endedIn = "llm"
  /\ threads = {}
  /\ \E i \in 1..Len(signals) :
        signals[i].llmCalls >= 1 /\ signals[i].analysis = "none"

\* C27 as stated: delivery and analysis of an escalated signal are
\* unordered, the analysis can be attached before the delivery completes:
\* the analysis does not wait for the delivery, so that it has been
\* dispatched whenever the delivery is still pending.
C27_AnalysisNotBehindDelivery ==
  \A i \in 1..Len(signals) :
     signals[i].sent = "pending" => signals[i].llmCalls >= 1

\* C27, amended: the signal is persisted first, the delivery of its
\* notification completes (or is skipped) next, and only then is the
\* analysis dispatched; no analysis is attached or pending while the
\* delivery is.
C27_DeliveryBeforeAnalysis ==
  /\ \A i \in 1..Len(signals) :
        (signals[i].by = "agent"
           /\ (signals[i].llmCalls >= 1 \/ signals[i].analysis # "none"))
          => signals[i].sent \in {"done", "skipped"}
  /\ \A th \in threads :
        /\ th.sig \in 1..Len(signals)
        /\ signals[th.sig].sent \in {"done", "skipped"}
  /\ \A t \in 1..Len(tasks) :
        tasks[t].pc \in {"notify", "llm"} =>
           /\ tasks[t].sig \in 1..Len(signals)
           /\ tasks[t].pc = "notify" =>
                /\ signals[tasks[t].sig].sent = "pending"
                /\ signals[tasks[t].sig].analysis = "none"
                /\ signals[tasks[t].sig].llmCalls = 0

\* C27 witness: the notification of a signal was delivered and, after it,
\* the analysis was attached.
C27_Witness ==
  \E i \in 1..Len(signals) :
     signals[i].sent = "done" /\ signals[i].analysis = "text"

\* The step in which loop task t runs analyze() from its first line with a
\* sentiment record.
StartsCycle(t) ==
  /\ t \in LoopTasks /\ running /\ sentiment # NoSent
  /\ tasks[t].pc \in {"new", "sleep"} /\ ~tasks[t].cancel
  /\ tasks'[t] # tasks[t] /\ ~tasks'[t].cancel
  /\ tasks'[t].pc \in {"sleep", "notify", "llm"}

\* The stretch that began the cycle was suspended in the first rule.
HeldInSpike(t) == tasks'[t].pc \in {"notify", "llm"} /\ tasks'[t].rule = 1

\* C28 as stated: a poll cycle attempts a sentiment_spike signal exactly
\* when the record it read has mood_index > 80 and a risk_alert signal
\* exactly when it has fried_rate > 30.
C28_EveryCycleAttempts ==
  /\ [][\A t \in 1..Len(tasks) :
          StartsCycle(t) =>
             (Attempt(calls', "sentiment_spike")
                <=> sentiment.mood > MoodThreshold)]_vars
  /\ [][\A t \in 1..Len(tasks) :
          (/\ t \in LoopTasks /\ tasks[t].pc \in {"notify", "llm"}
           /\ tasks'[t].pc \in {"sleep", "done"})
            => ((tasks[t].rule >= 2 \/ Attempt(calls', "risk_alert"))
                  <=> tasks[t].snap.fried > FriedThreshold)]_vars

\* C28, amended: a poll cycle calls _create_signal for sentiment_spike, at
\* level warning, exactly when the record it read has mood_index > 80; when
\* it reaches the second rule (it is not ended by stop() while the first
\* signal is notified or analysed) it calls it for risk_alert, at level
\* critical, exactly when the record has fried_rate > 30; at exactly 80 or
\* 30 it makes neither call.
C28_RulesAtThresholds ==
  /\ [][\A t \in 1..Len(tasks) :
          /\ StartsCycle(t) =>
               /\ Attempt(calls', "sentiment_spike")
                    <=> sentiment.mood > MoodThreshold
               /\ ~HeldInSpike(t) =>
                    (Attempt(calls', "risk_alert")
                       <=> sentiment.fried > FriedThreshold)
               /\ HeldInSpike(t) => ~Attempt(calls', "risk_alert")
          /\ (Resumes(t) /\ tasks[t].rule = 1) =>
               /\ Attempt(calls', "risk_alert")
                    <=> tasks[t].snap.fried > FriedThreshold
               /\ ~Attempt(calls', "sentiment_spike")
          /\ (Resumes(t) /\ tasks[t].rule >= 2) =>
               /\ ~Attempt(calls', "risk_alert")
               /\ ~Attempt(calls', "sentiment_spike")]_vars
  /\ [](\A k \in 1..Len(calls) :
          /\ calls[k].type = "sentiment_spike" => calls[k].level = "warning"
          /\ calls[k].type = "risk_alert" => calls[k].level = "critical")

\* C28 witness: one cycle, on a record with mood above 80 and fried rate
\* above 30, has called for both signals and is held in the second.
C28_Witness ==
  \E t \in LoopTasks :
     /\ tasks[t].pc \in {"notify", "llm"} /\ tasks[t].rule = 2
     /\ tasks[t].snap.mood > MoodThreshold
     /\ tasks[t].snap.fried > FriedThreshold
     /\ signals[tasks[t].sig].type = "risk_alert"
     /\ \E i \in 1..Len(signals) : signals[i].type = "sentiment_spike"

====
